---- MODULE Spec2Model ----
(***************************************************************************)
(* Univariate optimal transport: UnivariateSolver (dispatch, subsampling), *)
(* uniform_distance, quantile_distance, _quant_dist, the dense             *)
(* transport_matrices of UnivariateOutput, and gauss_seidel_1Dsolver.      *)
(*                                                                         *)
(* Arrays are functions over 0..len-1, as in the source.  One coordinate   *)
(* slice is modelled (the source maps every strategy independently over    *)
(* the d slices).  Weights are exact rationals: a[i] stands for the weight *)
(* a[i] / tot, where tot is the common total of a and b.  Costs, masses    *)
(* and matrix entries are rationals [num, den] or integer numerators over  *)
(* a stated denominator; floating-point rounding is not modelled.          *)
(***************************************************************************)
EXTENDS Integers, FiniteSets, Sequences, TLC

\* ---- bounds of the explored inputs ----
MaxN == 3
MaxA == 2
MaxB == 3
MaxVal == 2
MaxW == 1
MaxSub == 1
MaxQ == 1
MaxK == 3

\* Python's None, and a failed assert; records, as every other output is
None == [tag |-> "None"]

AssertionError == [tag |-> "AssertionError"]

\* ---- array helpers (jax.numpy semantics) ----
Size(f) == Cardinality(DOMAIN f)

\* f itself, built once as an explicit table of its entries
Strict(f) == f @@ <<>>

\* the array with the entries of a sequence
Arr(seq) == Strict([k \in 0..(Len(seq) - 1) |-> seq[k + 1]])

Range(f) == {f[k] : k \in DOMAIN f}

Min2(p, q) == IF p < q THEN p ELSE q

Max2(p, q) == IF p > q THEN p ELSE q

\* indexing arr[i]: a negative index counts from the end, an index still out
\* of bounds is clamped (gather) ...
Get(arr, i) ==
  LET len == Size(arr)
      w == IF i < 0 THEN i + len ELSE i
  IN arr[Max2(0, Min2(w, len - 1))]

\* ... and arr.at[i].set(v) drops an out-of-bounds update (scatter)
AtSet(arr, i, v) ==
  LET len == Size(arr)
      w == IF i < 0 THEN i + len ELSE i
  IN IF w \in DOMAIN arr THEN [arr EXCEPT ![w] = v] ELSE arr

Take(arr, idx) == Strict([k \in DOMAIN idx |-> Get(arr, idx[k])])

concatenate(f, g) ==
  Strict([k \in 0..(Size(f) + Size(g) - 1) |->
            IF k < Size(f) THEN f[k] ELSE g[k - Size(f)]])

zeros(len) == Strict([k \in 0..(len - 1) |-> 0])

RECURSIVE SumTo(_, _)
SumTo(f, k) == IF k < 0 THEN 0 ELSE f[k] + SumTo(f, k - 1)

sum(f) == SumTo(f, Size(f) - 1)

cumsum(f) == Strict([k \in DOMAIN f |-> SumTo(f, k)])

diff(f) == Strict([k \in 0..(Size(f) - 2) |-> f[k + 1] - f[k]])

\* position of f[i] in the stable ascending sort of f
RankOf(f, i) ==
  Cardinality({j \in DOMAIN f : f[j] < f[i] \/ (f[j] = f[i] /\ j < i)})

InvertRank(f, rank) ==
  Strict([p \in DOMAIN f |-> CHOOSE i \in DOMAIN f : rank[i] = p])

\* jnp.argsort (stable)
argsort(f) == InvertRank(f, Strict([i \in DOMAIN f |-> RankOf(f, i)]))

sort(f) == Take(f, argsort(f))

SortedWith(f, idx) == [sorted |-> Take(f, idx), idx |-> idx]

sort_and_argsort(f) == SortedWith(f, argsort(f))

\* faulty variant: side = right
searchsorted_right(arr, v) == Cardinality({k \in DOMAIN arr : arr[k] <= v})

\* first index whose entry reaches v (side = left), Size(arr) if none does
searchsorted(arr, v) == Cardinality({k \in DOMAIN arr : arr[k] < v})

\* ---- rationals ----
Rat(p, q) == [num |-> p, den |-> q]

RatEq(r, s) == r.num * s.den = s.num * r.den

\* ---- the cost contract: c(x, y) = h(x - y) ----
CostFns == {"abs", "sq"}

h(cost_fn, t) == IF cost_fn = "abs" THEN (IF t < 0 THEN -t ELSE t) ELSE t * t

pairwise(cost_fn, x, y) ==
  [i \in DOMAIN x |-> [j \in DOMAIN y |-> h(cost_fn, x[i] - y[j])]]

\* ---- Sort-and-Match ----
\* lines 271-280, given the two sorting permutations
UniformSorted(x, y, cost_fn, return_transport, i_x, i_y, xs, ys) ==
  LET n == Size(x)
      ot_costs == Rat(sum([k \in DOMAIN xs |-> h(cost_fn, xs[k] - ys[k])]), n)
  IN IF return_transport
     THEN [ot_costs |-> ot_costs,
           paired_indices |-> [i |-> i_x, j |-> i_y],
           mass_paired_indices |-> [num |-> [k \in 0..(n - 1) |-> 1], den |-> n],
           dual_a |-> None, dual_b |-> None]
     ELSE [ot_costs |-> ot_costs, paired_indices |-> None,
           mass_paired_indices |-> None, dual_a |-> None, dual_b |-> None]

UniformArgsorted(x, y, cost_fn, return_transport, i_x, i_y) ==
  UniformSorted(x, y, cost_fn, return_transport, i_x, i_y, Take(x, i_x), Take(y, i_y))

uniform_distance(x, y, cost_fn, return_transport) ==
  UniformArgsorted(x, y, cost_fn, return_transport, argsort(x), argsort(y))

\* ---- CDF-Inversion ----
\* idx_cost[-n-m+1:] : the last n+m-1 entries of idx_cost
TopSlice(idx_cost, cnt) ==
  LET start == Max2(0, Size(idx_cost) - cnt)
  IN Strict([k \in 0..(Size(idx_cost) - start - 1) |-> idx_cost[start + k]])

\* quantile_distance, lines 314-364, in stages; each stage receives the
\* arrays computed so far
\* lines 355-364: the constraints selected for the dual system
QuantileSelect(n, m, diff_q, successive_costs, orig_i, orig_j, idx_cost) ==
  [diff_q |-> diff_q,
   successive_costs |-> successive_costs,
   cost |-> sum([k \in DOMAIN diff_q |-> successive_costs[k] * diff_q[k]]),
   orig_i |-> orig_i, orig_j |-> orig_j,
   inv_idx |-> TopSlice(idx_cost, n + m - 1),
   new_cost |-> Take(successive_costs, TopSlice(idx_cost, n + m - 1)),
   i_orig_x |-> Take(orig_i, TopSlice(idx_cost, n + m - 1)),
   i_orig_y |-> Take(orig_j, TopSlice(idx_cost, n + m - 1))]

\* lines 336-360: interval masses, interval costs, index pairs
QuantilePairs(n, m, cost_fn, i_x, i_y, all_values_sorter, quantile_levels, x_cdf_inv, y_cdf_inv, i_x_cdf_inv, i_y_cdf_inv, diff_q, successive_costs) ==
  QuantileSelect(n, m, diff_q, successive_costs,
    Strict([k \in DOMAIN diff_q |->
              Get(i_x, Get(all_values_sorter, i_x_cdf_inv[k + 1]) % n)]),
    Strict([k \in DOMAIN diff_q |->
              Get(i_y, Get(all_values_sorter, i_y_cdf_inv[k + 1]) - n)]),
    argsort(Strict([k \in DOMAIN diff_q |->
                      IF diff_q[k] > 0 THEN successive_costs[k] ELSE 0])))

\* lines 331-339: inversion of the two CDFs at the quantile levels
QuantileInvert(n, m, cost_fn, i_x, i_y, sall, quantile_levels, i_x_cdf_inv, i_y_cdf_inv, x_cdf_inv, y_cdf_inv) ==
  QuantilePairs(n, m, cost_fn, i_x, i_y, sall.idx, quantile_levels,
    x_cdf_inv, y_cdf_inv, i_x_cdf_inv, i_y_cdf_inv,
    diff(quantile_levels),
    Strict([k \in 0..(Size(quantile_levels) - 2) |->
              h(cost_fn, x_cdf_inv[k + 1] - y_cdf_inv[k + 1])]))

QuantileLevels(n, m, cost_fn, i_x, i_y, sall, x_cdf, y_cdf, quantile_levels, i_x_cdf_inv, i_y_cdf_inv) ==
  QuantileInvert(n, m, cost_fn, i_x, i_y, sall, quantile_levels,
    i_x_cdf_inv, i_y_cdf_inv,
    Take(sall.sorted, i_x_cdf_inv), Take(sall.sorted, i_y_cdf_inv))

\* lines 325-333: the CDFs and the sorted union of their levels
QuantileCdf(n, m, cost_fn, i_x, i_y, sall, x_cdf, y_cdf, quantile_levels) ==
  QuantileLevels(n, m, cost_fn, i_x, i_y, sall, x_cdf, y_cdf, quantile_levels,
    Strict([k \in DOMAIN quantile_levels |-> searchsorted(x_cdf, quantile_levels[k])]),
    Strict([k \in DOMAIN quantile_levels |-> searchsorted(y_cdf, quantile_levels[k])]))

\* faulty variant: the union of the CDF levels is left unsorted
QuantileMerge_Unsorted(n, m, cost_fn, a, b, i_x, i_y, sall, x_cdf, y_cdf) ==
  QuantileCdf(n, m, cost_fn, i_x, i_y, sall, x_cdf, y_cdf,
    concatenate(x_cdf, y_cdf))

\* lines 322-329
QuantileMerge(n, m, cost_fn, a, b, i_x, i_y, sall, x_cdf, y_cdf) ==
  QuantileCdf(n, m, cost_fn, i_x, i_y, sall, x_cdf, y_cdf,
    sort(concatenate(x_cdf, y_cdf)))

\* faulty variant: the weights of x are padded with b instead of zeros
QuantileSorted_NoPad(n, m, cost_fn, a, b, sx, sy, sall) ==
  QuantileMerge(n, m, cost_fn, a, b, sx.idx, sy.idx, sall,
    cumsum(Take(concatenate(Take(a, sx.idx), b), sall.idx)),
    cumsum(Take(concatenate(zeros(n), Take(b, sy.idx)), sall.idx)))

\* lines 317-326
QuantileSorted(n, m, cost_fn, a, b, sx, sy, sall) ==
  QuantileMerge(n, m, cost_fn, a, b, sx.idx, sy.idx, sall,
    cumsum(Take(concatenate(Take(a, sx.idx), zeros(m)), sall.idx)),
    cumsum(Take(concatenate(zeros(n), Take(b, sy.idx)), sall.idx)))

QuantileStart(x, y, cost_fn, a, b, sx, sy) ==
  QuantileSorted(Size(x), Size(y), cost_fn, a, b, sx, sy,
    sort_and_argsort(concatenate(sx.sorted, sy.sorted)))

\* lines 314-315
QuantileWork(x, y, cost_fn, a, b) ==
  QuantileStart(x, y, cost_fn, a, b, sort_and_argsort(x), sort_and_argsort(y))

\* tot is the denominator of the weights a, b.  The dual vectors are the
\* NormalCG solution of the system kkt(dual_ab) = z; the model keeps the
\* system (its rows and right-hand side), not the numerical solution.
QuantileResult(w, tot, return_transport, return_dual_vectors) ==
  LET kkt == [inv_idx |-> w.inv_idx, i_orig_x |-> w.i_orig_x,
              i_orig_y |-> w.i_orig_y, z |-> concatenate(zeros(1), w.new_cost)]
  IN [ot_costs |-> Rat(w.cost, tot),
      paired_indices |->
        IF return_transport \/ return_dual_vectors
        THEN [i |-> w.orig_i, j |-> w.orig_j] ELSE None,
      mass_paired_indices |->
        IF return_transport \/ return_dual_vectors
        THEN [num |-> w.diff_q, den |-> tot] ELSE None,
      dual_a |-> IF return_dual_vectors THEN kkt ELSE None,
      dual_b |-> IF return_dual_vectors THEN kkt ELSE None]

quantile_distance(x, y, cost_fn, a, b, tot, return_transport, return_dual_vectors) ==
  QuantileResult(QuantileWork(x, y, cost_fn, a, b), tot,
                 return_transport, return_dual_vectors)

\* ---- Quantile-Grid ----
\* jnp.linspace(0.0, 1.0, q) is k / QDen(q), k = 0..q-1
QDen(q) == Max2(q - 1, 1)

\* QDen(q) * jnp.quantile(x, k / QDen(q)) with linear interpolation
ScaledQuantile(xs, q, k) ==
  LET pos == k * (Size(xs) - 1)
      lo == pos \div QDen(q)
      r == pos % QDen(q)
  IN xs[lo] * (QDen(q) - r) + Get(xs, lo + 1) * r

QuantDistSorted(xs, ys, cost_fn, q) ==
  LET d == [k \in 0..(q - 1) |->
              h(cost_fn, ScaledQuantile(xs, q, k) - ScaledQuantile(ys, q, k))]
      scale == IF cost_fn = "abs" THEN QDen(q) ELSE QDen(q) * QDen(q)
  IN [ot_costs |-> Rat(sum(d), scale * q), paired_indices |-> None,
      mass_paired_indices |-> None, dual_a |-> None, dual_b |-> None]

_quant_dist(x, y, cost_fn, q) == QuantDistSorted(sort(x), sort(y), cost_fn, q)

\* ---- the problem, the solver and its output ----
\* prob, solver: the LinearProblem and the UnivariateSolver; engine: the
\* strategy __call__ ran; out: its UnivariateOutput; mats: the value of
\* out.transport_matrices; ud, qd: the results of direct calls of
\* uniform_distance and quantile_distance; gs: gauss_seidel_1Dsolver's locals;
\* sample: the locals of _subsample in the last __call__
VARIABLES prob, solver, pc, engine, out, mats, ud, qd, gs, sample

vars == <<prob, solver, pc, engine, out, mats, ud, qd, gs, sample>>

\* LinearProblem.is_uniform, is_equal_size and geom.shape
is_uniform(p) ==
  /\ \A i, j \in DOMAIN p.a : p.a[i] = p.a[j]
  /\ \A i, j \in DOMAIN p.b : p.b[i] = p.b[j]

is_equal_size(p) == Size(p.x) = Size(p.y)

\* jnp.linspace(0, n, num=k).astype(int)
LinspaceInt(n, k) ==
  [t \in 0..(k - 1) |-> IF k = 1 THEN 0 ELSE (t * n) \div (k - 1)]

\* the index vectors jax.random.choice can draw (entries of positive weight)
ChoiceDraws(w, k) == [0..(k - 1) -> {i \in DOMAIN w : w[i] > 0}]

\* the draws Call needs: none unless it subsamples a non-uniform problem
RngDraws(p, k) ==
  IF k # 0 /\ ~is_uniform(p)
  THEN [ix : ChoiceDraws(p.a, k), iy : ChoiceDraws(p.b, k)]
  ELSE {[ix |-> zeros(0), iy |-> zeros(0)]}

_subsample(p, k, rng) ==
  IF is_uniform(p)
  THEN [x |-> Take(p.x, LinspaceInt(Size(p.x), k)),
        y |-> Take(p.y, LinspaceInt(Size(p.y), k))]
  ELSE [x |-> Take(p.x, rng.ix), y |-> Take(p.y, rng.iy)]

\* the locals of _subsample: the index vectors it takes and the result
SubsampleLocals(p, k, rng) ==
  [ix |-> IF is_uniform(p) THEN LinspaceInt(Size(p.x), k) ELSE rng.ix,
   iy |-> IF is_uniform(p) THEN LinspaceInt(Size(p.y), k) ELSE rng.iy,
   xy |-> _subsample(p, k, rng)]

\* faulty variant: the plan is not suppressed after subsampling
SolverCall_KeepPlan(p, s, return_transport, return_dual_vectors, rng) ==
  LET sub == s.num_subsamples # 0
      xy == IF sub THEN _subsample(p, s.num_subsamples, rng)
            ELSE [x |-> p.x, y |-> p.y]
      is_uniform_same_size ==
        IF sub THEN TRUE ELSE is_uniform(p) /\ is_equal_size(p)
  IN IF s.quantiles # None
     THEN IF ~is_uniform(p)
          THEN [engine |-> "quantile_grid", out |-> AssertionError]
          ELSE [engine |-> "quantile_grid",
                out |-> _quant_dist(xy.x, xy.y, p.cost_fn, s.quantiles.count)]
     ELSE IF is_uniform_same_size
          THEN [engine |-> "sort_and_match",
                out |-> uniform_distance(xy.x, xy.y, p.cost_fn, return_transport)]
          ELSE [engine |-> "cdf_inversion",
                out |-> quantile_distance(xy.x, xy.y, p.cost_fn, p.a, p.b, p.tot,
                                          return_transport, return_dual_vectors)]

\* UnivariateSolver.__call__: the engine that ran and the output record
SolverCall(p, s, return_transport, return_dual_vectors, rng) ==
  LET sub == s.num_subsamples # 0
      xy == IF sub THEN _subsample(p, s.num_subsamples, rng)
            ELSE [x |-> p.x, y |-> p.y]
      is_uniform_same_size ==
        IF sub THEN TRUE ELSE is_uniform(p) /\ is_equal_size(p)
  IN IF s.quantiles # None
     THEN IF ~is_uniform(p)
          THEN [engine |-> "quantile_grid", out |-> AssertionError]
          ELSE [engine |-> "quantile_grid",
                out |-> _quant_dist(xy.x, xy.y, p.cost_fn, s.quantiles.count)]
     ELSE IF is_uniform_same_size
          THEN [engine |-> "sort_and_match",
                out |-> uniform_distance(xy.x, xy.y, p.cost_fn,
                                         return_transport /\ ~sub)]
          ELSE [engine |-> "cdf_inversion",
                out |-> quantile_distance(xy.x, xy.y, p.cost_fn, p.a, p.b, p.tot,
                                          return_transport, return_dual_vectors)]

\* ---- dense transport matrix of one slice ----
eye(n) == [i \in 0..(n - 1) |-> [j \in 0..(n - 1) |-> IF i = j THEN 1 ELSE 0]]

\* jnp.eye(n)[idx, :][:, idy].T
transpose(mat, rows, cols) == [i \in 0..(cols - 1) |-> [j \in 0..(rows - 1) |-> mat[j][i]]]

TakeColumns(mat, idy) == [r \in DOMAIN mat |-> Take(mat[r], idy)]

ScatterEye(n, idx, idy) ==
  transpose(TakeColumns(Take(eye(n), idx), idy), Size(idx), Size(idy))

\* jax.ops.segment_sum: entry s collects the data whose id is s
segment_sum(data, ids, num_segments) ==
  Strict([s \in 0..(num_segments - 1) |->
            sum([k \in DOMAIN data |-> IF ids[k] = s THEN data[k] ELSE 0])])

reshape(flat, n, m) == [i \in 0..(n - 1) |-> [j \in 0..(m - 1) |-> flat[i * m + j]]]

\* faulty variant: no assertion, a zero matrix when the plan is None
transport_matrices_NoAssert(p, o) ==
  [num |-> Strict([i \in DOMAIN p.x |-> zeros(Size(p.y))]), den |-> 1]

\* UnivariateOutput.transport_matrices; entries are num[i][j] / den
transport_matrices(p, o) ==
  LET n == Size(p.x)
      m == Size(p.y)
  IN IF o.paired_indices = None THEN AssertionError
     ELSE IF is_equal_size(p) /\ is_uniform(p)
     THEN [num |-> ScatterEye(n, o.paired_indices.i, o.paired_indices.j),
           den |-> 1]
     ELSE LET indices == [k \in DOMAIN o.paired_indices.i |->
                            o.paired_indices.i[k] * m + o.paired_indices.j[k]]
          IN [num |-> reshape(segment_sum(o.mass_paired_indices.num, indices, n * m),
                              n, m),
              den |-> o.mass_paired_indices.den]

\* ---- inputs ----
ArraysOf(len, maxEntry) == [0..(len - 1) -> 0..maxEntry]

Weights(len) == {w \in ArraysOf(len, MaxW) : sum(w) > 0}

\* weights wa / sum(wa) and wb / sum(wb) over the common denominator tot
MakeProblem(x, y, wa, wb, cost_fn) ==
  [x |-> x, y |-> y,
   a |-> [i \in DOMAIN wa |-> wa[i] * sum(wb)],
   b |-> [j \in DOMAIN wb |-> wb[j] * sum(wa)],
   tot |-> sum(wa) * sum(wb),
   cost_fn |-> cost_fn]

\* equal sizes up to MaxN, default (uniform) weights
UniformProblems ==
  UNION {{MakeProblem(x, y, [i \in 0..(n - 1) |-> 1], [i \in 0..(n - 1) |-> 1], c) :
            x \in ArraysOf(n, MaxVal), y \in ArraysOf(n, MaxVal), c \in CostFns} :
         n \in 1..MaxN}

\* sizes up to MaxA and MaxB, any weights over 0..MaxW (normalised)
WeightedProblems ==
  UNION {{MakeProblem(x, y, wa, wb, c) :
            x \in ArraysOf(n, MaxVal), y \in ArraysOf(m, MaxVal),
            wa \in Weights(n), wb \in Weights(m), c \in CostFns} :
         n \in 1..MaxA, m \in 1..MaxB}

\* x = [0, 3], y = [1, 2], a = b = [0.5, 0.5], h = |t|
Scenario03 ==
  MakeProblem(Arr(<<0, 3>>), Arr(<<1, 2>>), Arr(<<1, 1>>), Arr(<<1, 1>>), "abs")

Problems == UniformProblems \cup WeightedProblems \cup {Scenario03}

\* num_subsamples 0 is the falsy default; quantiles is None or a grid size
Solvers ==
  [num_subsamples : 0..MaxSub,
   quantiles : {None} \cup {[count |-> q] : q \in 1..MaxQ}]

NoGS == [k |-> -1]

NoSub == [tag |-> "NoSub"]

Init ==
  /\ prob \in Problems
  /\ solver \in Solvers
  /\ pc = "init"
  /\ engine = "none"
  /\ out = None
  /\ mats = None
  /\ ud = None
  /\ qd = None
  /\ gs = NoGS
  /\ sample = NoSub

Returns(r) ==
  /\ engine' = r.engine
  /\ out' = r.out

Call ==
  /\ pc = "init"
  /\ \E return_transport \in BOOLEAN, return_dual_vectors \in BOOLEAN :
       \E rng \in RngDraws(prob, solver.num_subsamples) :
         /\ Returns(SolverCall(prob, solver, return_transport,
                               return_dual_vectors, rng))
         /\ sample' = IF solver.num_subsamples # 0
                   THEN SubsampleLocals(prob, solver.num_subsamples, rng)
                   ELSE NoSub
  /\ pc' = "called"
  /\ UNCHANGED <<prob, solver, mats, ud, qd, gs>>

TransportMatrices ==
  /\ pc = "called"
  /\ out # AssertionError
  /\ mats' = transport_matrices(prob, out)
  /\ pc' = "materialized"
  /\ UNCHANGED <<prob, solver, engine, out, ud, qd, gs, sample>>

Next == Call \/ TransportMatrices

Spec == Init /\ [][Next]_vars

\* ---- __call__ with subsampling, on the problems of uniform weights ----
SubsamplingSolvers == [num_subsamples : 1..MaxK, quantiles : {None}]

InitSub ==
  /\ prob \in {p \in Problems : is_uniform(p)}
  /\ solver \in SubsamplingSolvers
  /\ pc = "init"
  /\ engine = "none"
  /\ out = None
  /\ mats = None
  /\ ud = None
  /\ qd = None
  /\ gs = NoGS
  /\ sample = NoSub

SpecSub == InitSub /\ [][Next]_vars

\* ---- direct calls of the two exact engines on one problem ----
DefaultSolver == [num_subsamples |-> 0, quantiles |-> None]

InitFn ==
  /\ prob \in Problems
  /\ solver = DefaultSolver
  /\ pc = "init"
  /\ engine = "none"
  /\ out = None
  /\ mats = None
  /\ ud = None
  /\ qd = None
  /\ gs = NoGS
  /\ sample = NoSub

\* uniform_distance on an equal-size, uniformly weighted problem
CallUniformDistance ==
  /\ ud = None
  /\ is_uniform(prob) /\ is_equal_size(prob)
  /\ \E return_transport \in BOOLEAN :
       ud' = uniform_distance(prob.x, prob.y, prob.cost_fn, return_transport)
  /\ UNCHANGED <<prob, solver, pc, engine, out, mats, qd, gs, sample>>

\* quantile_distance under each choice of its two flags; w is its work on
\* the problem, which the flags do not influence
QuantileReturns(w) ==
  \E return_transport \in BOOLEAN, return_dual_vectors \in BOOLEAN :
    qd' = QuantileResult(w, prob.tot, return_transport, return_dual_vectors)

CallQuantileDistance ==
  /\ qd = None
  /\ QuantileReturns(QuantileWork(prob.x, prob.y, prob.cost_fn, prob.a, prob.b))
  /\ UNCHANGED <<prob, solver, pc, engine, out, mats, ud, gs, sample>>

NextFn == CallUniformDistance \/ CallQuantileDistance

SpecFn == InitFn /\ [][NextFn]_vars

\* ---- gauss_seidel_1Dsolver ----
\* P.at[i, j].set(v): dropped when (i, j) is not a cell of P
AtSet2(P, i, j, v) ==
  IF i \in DOMAIN P /\ j \in DOMAIN P[i]
  THEN Strict([P EXCEPT ![i] = Strict([P[i] EXCEPT ![j] = v])])
  ELSE P

Get2(C, i, j) == Get(Get(C, i), j)

\* lines 441-461: the locals before the loop, given the two sorts
GSLocals(p, sx, sy) ==
  [x |-> sx.sorted, y |-> sy.sorted,
   a |-> Take(p.a, sx.idx), b |-> Take(p.b, sy.idx),
   cost_matrix |-> pairwise(p.cost_fn, sx.sorted, sy.sorted),
   I |-> zeros(Size(p.x) + Size(p.y) - 1),
   J |-> zeros(Size(p.x) + Size(p.y) - 1),
   P |-> Strict([i \in DOMAIN p.x |-> zeros(Size(p.y))]),
   dual_a |-> zeros(Size(p.x)),
   dual_b |-> AtSet(zeros(Size(p.y)), 0, h(p.cost_fn, sx.sorted[0] - sy.sorted[0])),
   k |-> 0]

GSInit(p) == GSLocals(p, sort_and_argsort(p.x), sort_and_argsort(p.y))

\* faulty variant: the new dual is made tight on the row just left
dual_a_update_SameRow(g, i, j, k) ==
  [g EXCEPT !.I = AtSet(g.I, k + 1, i + 1),
            !.J = AtSet(g.J, k + 1, j),
            !.dual_a = AtSet(g.dual_a, i + 1,
                             Get2(g.cost_matrix, i, j) - Get(g.dual_b, j))]

dual_a_update(g, i, j, k) ==
  [g EXCEPT !.I = AtSet(g.I, k + 1, i + 1),
            !.J = AtSet(g.J, k + 1, j),
            !.dual_a = AtSet(g.dual_a, i + 1,
                             Get2(g.cost_matrix, i + 1, j) - Get(g.dual_b, j))]

dual_b_update(g, i, j, k) ==
  [g EXCEPT !.I = AtSet(g.I, k + 1, i),
            !.J = AtSet(g.J, k + 1, j + 1),
            !.dual_b = AtSet(g.dual_b, j + 1,
                             Get2(g.cost_matrix, i, j + 1) - Get(g.dual_a, i))]

\* lines 484-489, on the locals u left by the dual update
GSTransfer(g, u, i, j, min_ab) ==
  [u EXCEPT !.P = AtSet2(g.P, i, j, min_ab),
            !.a = AtSet(g.a, i, Get(g.a, i) - min_ab),
            !.b = AtSet(g.b, j, Get(g.b, j) - min_ab),
            !.k = g.k + 1]

\* one iteration of the fori_loop at index g.k
GSBody(g, i, j) ==
  GSTransfer(g,
    IF Get(g.a, i) < Get(g.b, j)
    THEN dual_a_update(g, i, j, g.k) ELSE dual_b_update(g, i, j, g.k),
    i, j, Min2(Get(g.a, i), Get(g.b, j)))

\* lines 495-497
GSFinal(g) ==
  [g EXCEPT !.P = AtSet2(g.P, Get(g.I, -1), Get(g.J, -1),
                         Max2(Get(g.a, -1), Get(g.b, -1)))]

GSStart ==
  /\ pc = "init"
  /\ gs' = GSInit(prob)
  /\ pc' = "gs_loop"
  /\ UNCHANGED <<prob, solver, engine, out, mats, ud, qd, sample>>

body_fun ==
  /\ pc = "gs_loop"
  /\ gs.k < Size(gs.I) - 1
  /\ gs' = GSBody(gs, gs.I[gs.k], gs.J[gs.k])
  /\ UNCHANGED <<prob, solver, pc, engine, out, mats, ud, qd, sample>>

GSReturn ==
  /\ pc = "gs_loop"
  /\ gs.k = Size(gs.I) - 1
  /\ gs' = GSFinal(gs)
  /\ pc' = "gs_done"
  /\ UNCHANGED <<prob, solver, engine, out, mats, ud, qd, sample>>

\* the sweep, then quantile_distance on the same problem
NextGS ==
  \/ GSStart
  \/ body_fun
  \/ GSReturn
  \/ (pc = "gs_done" /\ CallQuantileDistance)

SpecGS == InitFn /\ [][NextGS]_vars

\* ---- properties ----
Dot(f, g) == sum([k \in DOMAIN f |-> f[k] * g[k]])

RowSum(mat, i) == sum(mat[i])

ColSum(mat, j) == sum([i \in DOMAIN mat |-> mat[i][j]])

Called == pc \in {"called", "materialized"}

HasPlan(o) == IF o = None \/ o = AssertionError THEN FALSE ELSE o.paired_indices # None

PositivePairs(o) ==
  {k \in DOMAIN o.mass_paired_indices.num : o.mass_paired_indices.num[k] > 0}

\* C1: __call__ picks the engine by priority: a quantile specification runs
\* the Quantile-Grid Approximator, and fails when the weights are not
\* uniform; otherwise an equal-size uniform problem, or any subsampled one,
\* runs Sort-and-Match, with no plan after subsampling; every other problem
\* runs CDF-Inversion, never Sort-and-Match.
DispatchPriority ==
  Called =>
    /\ solver.quantiles # None =>
         /\ engine = "quantile_grid"
         /\ (out = AssertionError) <=> ~is_uniform(prob)
    /\ (solver.quantiles = None
          /\ ((is_uniform(prob) /\ is_equal_size(prob)) \/ solver.num_subsamples # 0)) =>
         /\ engine = "sort_and_match"
         /\ solver.num_subsamples # 0 => out.paired_indices = None
    /\ (solver.quantiles = None /\ solver.num_subsamples = 0
          /\ ~(is_uniform(prob) /\ is_equal_size(prob))) =>
         engine = "cdf_inversion"

\* witness of C1: a non-uniform problem with n = 2, m = 3 went to CDF-Inversion
CdfInversionOn2x3 ==
  /\ pc = "called" /\ engine = "cdf_inversion"
  /\ Size(prob.x) = 2 /\ Size(prob.y) = 3 /\ ~is_uniform(prob)

\* C4: when the plan is not null, row i of the dense matrix sums to a[i] and
\* column j to b[j] (entries num / den, weights a / tot).
DenseMarginals ==
  (pc = "materialized" /\ mats # AssertionError) =>
    /\ \A i \in DOMAIN prob.x :
         RowSum(mats.num, i) * prob.tot = prob.a[i] * mats.den
    /\ \A j \in DOMAIN prob.y :
         ColSum(mats.num, j) * prob.tot = prob.b[j] * mats.den

\* C8: in quantile mode or with subsampling the plan of the output is
\* None, and transport_matrices of an output whose plan is None fails with
\* the assertion error instead of returning a matrix.
ApproximatePlanUnavailable ==
  /\ (Called /\ out # AssertionError
        /\ (solver.quantiles # None \/ solver.num_subsamples # 0)) =>
       out.paired_indices = None
  /\ (pc = "materialized" /\ out.paired_indices = None) => mats = AssertionError

\* witness of C8: the matrices of a subsampled solve were requested
SubsampledMatricesRequested ==
  /\ pc = "materialized" /\ mats = AssertionError
  /\ solver.num_subsamples # 0 /\ solver.quantiles = None

\* C3: on an equal-size problem with uniform weights the cost of
\* uniform_distance equals the cost of quantile_distance.
UniformMatchesQuantile ==
  (ud # None /\ qd # None) => RatEq(ud.ot_costs, qd.ot_costs)

\* witness of C3: both engines ran on three points per side, with a value
\* repeated in x, a value shared by x and y, and a positive cost
BothEnginesOnTies ==
  /\ ud # None /\ qd # None
  /\ Size(prob.x) = 3
  /\ prob.x[0] = prob.x[2] /\ prob.x[1] = prob.y[0]
  /\ ud.ot_costs.num > 0

\* C5: the masses of a sparse plan are non-negative and sum to 1.
PlanMassesSumToOne ==
  \A o \in {ud, qd} :
    HasPlan(o) =>
      /\ \A k \in DOMAIN o.mass_paired_indices.num :
           o.mass_paired_indices.num[k] >= 0
      /\ sum(o.mass_paired_indices.num) = o.mass_paired_indices.den

\* witness of C5: a CDF-Inversion plan on unequal sizes and weights
WeightedPlanReturned ==
  /\ HasPlan(qd)
  /\ Size(prob.x) = 2 /\ Size(prob.y) = 3
  /\ prob.a[0] = 0 /\ prob.b[0] # prob.b[1]

ActiveConstraintsSelected ==
  (HasPlan(qd) /\ qd.dual_a # None) =>
    /\ \A r \in DOMAIN qd.dual_a.inv_idx :
         qd.mass_paired_indices.num[qd.dual_a.inv_idx[r]] > 0
    /\ \A k \in PositivePairs(qd) : k \in Range(qd.dual_a.inv_idx)

\* C2: the cost of quantile_distance equals sum(dual_a * a) + sum(dual_b * b)
\* over the duals of gauss_seidel_1Dsolver.
GaussSeidelCostMatchesQuantile ==
  (pc = "gs_done" /\ qd # None) =>
    RatEq(qd.ot_costs,
          Rat(Dot(gs.dual_a, prob.a) + Dot(gs.dual_b, prob.b), prob.tot))

\* C7: at every pointer position the sweep has recorded, the duals are
\* tight: dual_a[i] + dual_b[j] = h(x_i - y_j), from the first position on
\* and after every advance of i or of j.
DualsTightOnSweep ==
  pc \in {"gs_loop", "gs_done"} =>
    \A k \in 0..gs.k :
      (gs.I[k] \in DOMAIN gs.x /\ gs.J[k] \in DOMAIN gs.y) =>
        gs.dual_a[gs.I[k]] + gs.dual_b[gs.J[k]]
          = h(prob.cost_fn, gs.x[gs.I[k]] - gs.y[gs.J[k]])

\* witness of C7: a finished sweep that advanced both pointers to the last
\* cell of a 2 x 3 problem and set a nonzero dual
SweepReachedCorner ==
  /\ pc = "gs_done"
  /\ Size(gs.x) = 2 /\ Size(gs.y) = 3
  /\ Get(gs.I, -1) = 1 /\ Get(gs.J, -1) = 2
  /\ gs.dual_a[1] # 0

\* C10: P is a coupling of the caller's problem: entries non-negative, row i
\* sums to a[i] and column j to b[j].
GaussSeidelCoupling ==
  pc = "gs_done" =>
    /\ \A i \in DOMAIN prob.x, j \in DOMAIN prob.y : gs.P[i][j] >= 0
    /\ \A i \in DOMAIN prob.x : RowSum(gs.P, i) = prob.a[i]
    /\ \A j \in DOMAIN prob.y : ColSum(gs.P, j) = prob.b[j]

\* C11: for a uniform equal-size problem solved by Sort-and-Match, cell
\* [i, j] of the dense matrix is nonzero exactly when (i, j) is one of the
\* index pairs (i_x[k], i_y[k]) of the sparse plan.
DenseMatchesSparsePairs ==
  (pc = "materialized" /\ engine = "sort_and_match" /\ mats # AssertionError) =>
    \A i \in DOMAIN prob.x, j \in DOMAIN prob.y :
      (mats.num[i][j] # 0) <=>
        (\E k \in DOMAIN out.paired_indices.i :
           out.paired_indices.i[k] = i /\ out.paired_indices.j[k] = j)

\* C12: every pointer the sweep records is a cell of the n x m grid,
\* 0 <= I[k] <= n-1 and 0 <= J[k] <= m-1 (the pointer recorded at k+1 is also
\* the row and column whose cost and dual the update of step k reads and
\* writes), and the pointer used by the final step is (n-1, m-1).
GSPointersInRange ==
  /\ pc \in {"gs_loop", "gs_done"} =>
       \A k \in 0..gs.k : gs.I[k] \in DOMAIN gs.x /\ gs.J[k] \in DOMAIN gs.y
  /\ pc = "gs_done" =>
       /\ Get(gs.I, -1) = Size(gs.x) - 1
       /\ Get(gs.J, -1) = Size(gs.y) - 1

\* C13: in the uniform branch of _subsample every position taken from
\* linspace(0, n, k) (resp. linspace(0, m, k)) converted to integer is an
\* index of the collection: it lies in 0..n-1 (resp. 0..m-1).
SubsamplePositionsValid ==
  (sample # NoSub /\ is_uniform(prob)) =>
    /\ \A t \in DOMAIN sample.ix : sample.ix[t] \in DOMAIN prob.x
    /\ \A t \in DOMAIN sample.iy : sample.iy[t] \in DOMAIN prob.y

====
